---- MODULE Spec2Model ----
(***************************************************************************)
(* State-machine model of the Shiny shapefile viewer session (src/app.py). *)
(*                                                                         *)
(* One session is modelled.  The reactive graph of the program is:        *)
(*   input.shapefile  --> load_shapefile (memoised reactive.Calc)          *)
(*   load_shapefile   --> attribute_selector, file_info, debug_info,       *)
(*                        geometry_info                                    *)
(*   gdf_store, input.legend_attribute --> map_output                      *)
(* The session is single threaded: a user event (upload, selection) is     *)
(* accepted only when the previous flush is over; the outputs of a flush   *)
(* run one at a time, in any order.  load_shapefile is followed line by    *)
(* line (loadpc) so that the life of the scratch directory is visible.     *)
(*                                                                         *)
(* File names are sequences of characters, so that str.endswith is         *)
(* computed and not assumed.  Library calls (zipfile, geopandas, shapely,  *)
(* folium) are modelled by their outcome on the file bodies of Universe.   *)
(***************************************************************************)
EXTENDS Integers, Sequences, FiniteSets, TLC

\* ------------------------------------------------------------------ bounds
\* number of uploads followed in one session
MaxLoads == 2
\* largest number of files in one upload
MaxFiles == 2

\* ------------------------------------------------------------- file names
ZipExt == <<".", "z", "i", "p">>
ShpExt == <<".", "s", "h", "p">>
ShxExt == <<".", "s", "h", "x">>

a_zip == <<"a">> \o ZipExt
a_shp == <<"a">> \o ShpExt
b_shp == <<"b">> \o ShpExt
a_shx == <<"a">> \o ShxExt
b_shx == <<"b">> \o ShxExt

\* str.endswith
EndsWith(s, suffix) ==
    /\ Len(s) >= Len(suffix)
    /\ SubSeq(s, Len(s) - Len(suffix) + 1, Len(s)) = suffix

\* base name of a component file: the name without its four-character extension
Stem(name) == SubSeq(name, 1, Len(name) - 4)

\* ------------------------------------------------------------------ tables
None == [id |-> "None"]

\* geometry kinds: "valid"; "selfintersect" (invalid, repaired by a zero
\* buffer); "nan" (invalid, left invalid by a zero buffer)
T1 == [id |-> "T1",
       rows |-> << [fid |-> 11, geom |-> "valid", gtype |-> "Polygon"],
                   [fid |-> 12, geom |-> "selfintersect", gtype |-> "Polygon"] >>,
       dtypes |-> ("pop" :> "int64") @@ ("name" :> "object"),
       crs |-> "EPSG:4326"]

T2 == [id |-> "T2",
       rows |-> << [fid |-> 21, geom |-> "nan", gtype |-> "Polygon"],
                   [fid |-> 22, geom |-> "valid", gtype |-> "MultiPolygon"],
                   [fid |-> 23, geom |-> "nan", gtype |-> "Polygon"] >>,
       dtypes |-> ("area" :> "float64") @@ ("pop" :> "int64"),
       crs |-> "EPSG:4326"]

T3 == [id |-> "T3",
       rows |-> << [fid |-> 31, geom |-> "valid", gtype |-> "MultiPolygon"] >>,
       dtypes |-> ("area" :> "float64") @@ ("code" :> "int32") @@ ("name" :> "object"),
       crs |-> "EPSG:3857"]

\* ------------------------------------------------------------- file bodies
Aux == [kind |-> "aux"]
Garbage == [kind |-> "garbage"]
Unreadable == [kind |-> "unreadable"]
ShpBody(t) == [kind |-> "shp", table |-> t]
ZipBody(m) == [kind |-> "zip", members |-> m]

UploadFile(n, b) == [name |-> n, body |-> b]

\* the files a user can pick, as (name, datapath content)
Universe ==
    { UploadFile(a_zip, ZipBody((a_shp :> ShpBody(T1)) @@ (a_shx :> Aux)
                                @@ (b_shp :> ShpBody(T3)) @@ (b_shx :> Aux))),
      UploadFile(a_zip, ZipBody((a_shp :> ShpBody(T2)) @@ (a_shx :> Aux))),
      UploadFile(a_zip, ZipBody((a_shx :> Aux))),
      UploadFile(a_zip, Garbage),
      UploadFile(a_shp, ShpBody(T3)),
      UploadFile(a_shx, Aux),
      UploadFile(a_shx, Unreadable) }

\* the non-empty uploads: up to MaxFiles different files, in any order
Uploads ==
    UNION { {fs \in [1..n -> Universe] : \A i, j \in 1..n : fs[i] = fs[j] => i = j}
            : n \in 1..MaxFiles }

\* ---------------------------------------------------------- pure functions
\* line 37: the branch of the assembly
UseArchiveBranch_AnyZip(fs) == \E i \in DOMAIN fs : EndsWith(fs[i].name, ZipExt)

UseArchiveBranch(fs) == Len(fs) = 1 /\ EndsWith(fs[1].name, ZipExt)

\* lines 38-39: zipfile.ZipFile(...).extractall raises on what is no archive
ExtractFails(f) == f.body.kind # "zip"

ExtractAll(f) == f.body.members

\* lines 41-42: shutil.copy raises on an unreadable source
CopyFails(fs) == \E i \in DOMAIN fs : fs[i].body.kind = "unreadable"

\* lines 41-42: every file under its own name; a later file of the same name
\* overwrites an earlier one
CopyAll(fs) ==
    [n \in {fs[i].name : i \in DOMAIN fs} |->
        LET last == CHOOSE i \in DOMAIN fs :
                        /\ fs[i].name = n
                        /\ \A j \in DOMAIN fs : fs[j].name = n => j <= i
        IN fs[last].body]

\* line 44: the names of the directory that end in .shp
FindShp_AnyFile(listing) == DOMAIN listing

FindShp(listing) == {n \in DOMAIN listing : EndsWith(n, ShpExt)}

\* line 47: gpd.read_file raises on a body that is no shapefile and on a
\* missing .shx sibling
ReadFails(listing, shp) ==
    \/ listing[shp].kind # "shp"
    \/ (Stem(shp) \o ShxExt) \notin DOMAIN listing

ReadFile(listing, shp) == listing[shp].table

\* line 50: zero-distance buffer of one geometry
Buffer0(g) == IF g = "selfintersect" THEN "valid" ELSE g

\* line 50: gdf['geometry'] = gdf['geometry'].buffer(0); every row is kept
Repair_DropInvalid(t) ==
    [t EXCEPT !.rows =
        SelectSeq([i \in DOMAIN t.rows |-> [t.rows[i] EXCEPT !.geom = Buffer0(@)]],
                  LAMBDA r : r.geom = "valid")]

Repair(t) ==
    [t EXCEPT !.rows = [i \in DOMAIN t.rows |-> [t.rows[i] EXCEPT !.geom = Buffer0(@)]]]

\* gdf.is_valid of one row
IsValid(g) == g = "valid"

\* shapely.validation.explain_validity
ExplainValidity(g) ==
    CASE g = "valid" -> "Valid Geometry"
      [] g = "selfintersect" -> "Self-intersection"
      [] OTHER -> "Invalid Coordinate"

\* line 53: gdf[~gdf.is_valid], as the positions of the rows
InvalidGeoms(t) == {i \in DOMAIN t.rows : ~IsValid(t.rows[i].geom)}

\* lines 55-56: the message of a load with invalid rows
InvalidMsg(t) ==
    [kind |-> "invalid",
     count |-> Cardinality(InvalidGeoms(t)),
     info |-> [i \in InvalidGeoms(t) |-> ExplainValidity(t.rows[i].geom)]]

\* line 59
SuccessMsg(shp) == [kind |-> "success", path |-> shp]

\* line 61
NoShpMsg == [kind |-> "noshp"]

\* line 33
NoFilesMsg == [kind |-> "nofiles"]

\* line 64: str(e) and traceback.format_exc(); the trace is the raising line
ErrorMsg(e, line) == [kind |-> "error", desc |-> e, trace |-> line]

\* line 63: what the except clause of the load catches
LoadCatches_NotParse(e) == e # "DriverError"

LoadCatches(e) == TRUE

\* line 36: leaving the with block removes the directory
Cleanup_Leak(sc, d) == sc

Cleanup(sc, d) == [x \in (DOMAIN sc) \ {d} |-> sc[x]]

\* line 71: select_dtypes(include=['int64', 'float64']).columns
NumericColumns_All(t) == DOMAIN t.dtypes

NumericColumns(t) == {c \in DOMAIN t.dtypes : t.dtypes[c] \in {"int64", "float64"}}

\* reactive.Calc: the body runs again only after an invalidation
NeedsRecompute_Always(valid) == TRUE

NeedsRecompute(valid) == ~valid

\* lines 82-118: the failure of a render, "" when it succeeds.  input.x() of
\* an input the client never sent raises; gdf[attr] raises KeyError on a
\* missing column; the colour scale raises TypeError on non-number bounds
RenderError(t, attr) ==
    CASE attr = "" -> "SilentException"
      [] attr # "" /\ attr \notin DOMAIN t.dtypes -> "KeyError"
      [] attr # "" /\ attr \in DOMAIN t.dtypes
            /\ t.dtypes[attr] \notin {"int64", "float64", "int32"} -> "TypeError"
      [] OTHER -> ""

\* line 121: what the except clause of the render catches
RenderCatches_NotKeyError(e) == e # "KeyError"

RenderCatches(e) == TRUE

\* line 145: geom_type.value_counts()
GeomTypeCounts(t) ==
    [g \in {t.rows[i].gtype : i \in DOMAIN t.rows} |->
        Cardinality({i \in DOMAIN t.rows : t.rows[i].gtype = g})]

Fids(t) == {t.rows[i].fid : i \in DOMAIN t.rows}

\* ------------------------------------------------------------------- state
Outputs == {"attribute_selector", "map_output", "file_info", "debug_info", "geometry_info"}

\* the outputs that call load_shapefile()
LoadReaders == Outputs \ {"map_output"}

IsNone(t) == t.id = "None"

Blank == [kind |-> "blank"]

VARIABLES
    files,             \* input.shapefile(): the current upload, <<>> before any
    legend_attribute,  \* input.legend_attribute(): "" while the client never sent one
    gdf_store,         \* reactive.Value read by map_output
    calcValid,         \* load_shapefile holds a memoised result
    calc,              \* the memoised result of load_shapefile: [gdf, msg]
    out,               \* what each output last rendered
    pending,           \* the invalidated outputs of the running flush
    running,           \* the output being computed, "none" between outputs
    loadpc,            \* position inside load_shapefile
    tmpdirname,        \* local of load_shapefile: the scratch directory, 0 if none
    scratch,           \* the scratch directories that exist, with their listing
    nextDir,           \* number of scratch directories created so far
    shp_file,          \* local of load_shapefile, <<>> if none
    gdf,               \* local of load_shapefile
    parsed,            \* the table as gpd.read_file returned it in the last load
    exc,               \* the exception in flight or last handled in the load, "" if none
    excline,           \* the line that raised it
    crashed,           \* an exception left a handler of the session
    offered            \* every attribute name the selector has offered

vars == <<files, legend_attribute, gdf_store, calcValid, calc, out, pending, running,
          loadpc, tmpdirname, scratch, nextDir, shp_file, gdf, parsed, exc, excline,
          crashed, offered>>

inputs == <<files, legend_attribute>>
locals == <<tmpdirname, shp_file, gdf, parsed, exc, excline>>

Quiescent == running = "none" /\ pending = {} /\ loadpc = "idle"

Init ==
    /\ files = <<>>
    /\ legend_attribute = ""
    /\ gdf_store = None
    /\ calcValid = FALSE
    /\ calc = [gdf |-> None, msg |-> [kind |-> "unset"]]
    /\ out = [o \in Outputs |-> Blank]
    /\ pending = Outputs
    /\ running = "none"
    /\ loadpc = "idle"
    /\ tmpdirname = 0
    /\ scratch = <<>>
    /\ nextDir = 0
    /\ shp_file = <<>>
    /\ gdf = None
    /\ parsed = None
    /\ exc = ""
    /\ excline = 0
    /\ crashed = FALSE
    /\ offered = {}

\* ------------------------------------------------------------- user events
\* the user picks files: the input changes, the Calc and its readers are invalidated
Upload(fs) ==
    /\ Quiescent /\ ~crashed
    /\ nextDir < MaxLoads
    /\ files' = fs
    /\ calcValid' = FALSE
    /\ pending' = LoadReaders
    /\ UNCHANGED <<legend_attribute, gdf_store, calc, out, running, loadpc, locals,
                   scratch, nextDir, crashed, offered>>

\* the select control reports one of the choices it was populated with;
\* map_output reads the input only when a table is stored
SelectAttribute(a) ==
    /\ Quiescent /\ ~crashed
    /\ out["attribute_selector"].kind = "select"
    /\ a \in out["attribute_selector"].choices
    /\ a # legend_attribute
    /\ legend_attribute' = a
    /\ pending' = IF IsNone(gdf_store) THEN {} ELSE {"map_output"}
    /\ UNCHANGED <<files, gdf_store, calcValid, calc, out, running, loadpc, locals,
                   scratch, nextDir, crashed, offered>>

\* ---------------------------------------------------------- load_shapefile
\* an output calls load_shapefile(): the memoised result is used, or the body runs
CallLoad(o) ==
    /\ running = "none" /\ loadpc = "idle" /\ ~crashed
    /\ o \in pending /\ o \in LoadReaders
    /\ running' = o
    /\ pending' = pending \ {o}
    /\ IF NeedsRecompute(calcValid)
       THEN /\ loadpc' = "entry"
            /\ tmpdirname' = 0 /\ shp_file' = <<>> /\ gdf' = None /\ parsed' = None
            /\ exc' = "" /\ excline' = 0
       ELSE /\ loadpc' = "done"
            /\ UNCHANGED locals
    /\ UNCHANGED <<inputs, gdf_store, calcValid, calc, out, scratch, nextDir, crashed,
                   offered>>

\* return of load_shapefile from inside the with block
Return(g, m) ==
    /\ calc' = [gdf |-> g, msg |-> m]
    /\ calcValid' = TRUE
    /\ loadpc' = "done"

\* an exception leaves the with block
Raise(e, line) ==
    /\ scratch' = Cleanup(scratch, tmpdirname)
    /\ exc' = e
    /\ excline' = line
    /\ loadpc' = "except"

load_entry ==
    /\ loadpc = "entry"
    /\ IF files = <<>>
       THEN Return(None, NoFilesMsg)
       ELSE loadpc' = "mkdtemp" /\ UNCHANGED <<calc, calcValid>>
    /\ UNCHANGED <<inputs, gdf_store, out, pending, running, locals, scratch, nextDir,
                   crashed, offered>>

load_mkdtemp ==
    /\ loadpc = "mkdtemp"
    /\ nextDir' = nextDir + 1
    /\ tmpdirname' = nextDir + 1
    /\ scratch' = scratch @@ ((nextDir + 1) :> <<>>)
    /\ loadpc' = "assemble"
    /\ UNCHANGED <<inputs, gdf_store, calcValid, calc, out, pending, running, shp_file,
                   gdf, parsed, exc, excline, crashed, offered>>

load_assemble ==
    /\ loadpc = "assemble"
    /\ IF UseArchiveBranch(files)
       THEN IF ExtractFails(files[1])
            THEN Raise("BadZipFile", 38)
            ELSE /\ scratch' = [scratch EXCEPT ![tmpdirname] = ExtractAll(files[1])]
                 /\ loadpc' = "find"
                 /\ UNCHANGED <<exc, excline>>
       ELSE IF CopyFails(files)
            THEN Raise("FileNotFoundError", 42)
            ELSE /\ scratch' = [scratch EXCEPT ![tmpdirname] = CopyAll(files)]
                 /\ loadpc' = "find"
                 /\ UNCHANGED <<exc, excline>>
    /\ UNCHANGED <<inputs, gdf_store, calcValid, calc, out, pending, running, tmpdirname,
                   shp_file, gdf, parsed, nextDir, crashed, offered>>

\* os.listdir gives the names in no particular order: any .shp may be the first
load_find ==
    /\ loadpc = "find"
    /\ LET found == FindShp(scratch[tmpdirname])
       IN IF found = {}
          THEN /\ Return(None, NoShpMsg)
               /\ scratch' = Cleanup(scratch, tmpdirname)
               /\ UNCHANGED shp_file
          ELSE /\ \E s \in found : shp_file' = s
               /\ loadpc' = "read"
               /\ UNCHANGED <<calc, calcValid, scratch>>
    /\ UNCHANGED <<inputs, gdf_store, out, pending, running, tmpdirname, gdf, parsed,
                   exc, excline, nextDir, crashed, offered>>

load_read ==
    /\ loadpc = "read"
    /\ IF ReadFails(scratch[tmpdirname], shp_file)
       THEN Raise("DriverError", 47) /\ UNCHANGED <<gdf, parsed>>
       ELSE /\ gdf' = ReadFile(scratch[tmpdirname], shp_file)
            /\ parsed' = ReadFile(scratch[tmpdirname], shp_file)
            /\ loadpc' = "repair"
            /\ UNCHANGED <<scratch, exc, excline>>
    /\ UNCHANGED <<inputs, gdf_store, calcValid, calc, out, pending, running, tmpdirname,
                   shp_file, nextDir, crashed, offered>>

load_repair ==
    /\ loadpc = "repair"
    /\ gdf' = Repair(gdf)
    /\ loadpc' = "check"
    /\ UNCHANGED <<inputs, gdf_store, calcValid, calc, out, pending, running, tmpdirname,
                   shp_file, parsed, exc, excline, scratch, nextDir, crashed, offered>>

\* gdf_store.set invalidates map_output
load_check ==
    /\ loadpc = "check"
    /\ IF InvalidGeoms(gdf) # {}
       THEN /\ Return(gdf, InvalidMsg(gdf))
            /\ UNCHANGED <<gdf_store, pending>>
       ELSE /\ gdf_store' = gdf
            /\ pending' = pending \cup {"map_output"}
            /\ Return(gdf, SuccessMsg(shp_file))
    /\ scratch' = Cleanup(scratch, tmpdirname)
    /\ UNCHANGED <<inputs, out, running, locals, nextDir, crashed, offered>>

load_except ==
    /\ loadpc = "except"
    /\ IF LoadCatches(exc)
       THEN /\ Return(None, ErrorMsg(exc, excline))
            /\ UNCHANGED <<running, crashed>>
       ELSE /\ crashed' = TRUE
            /\ running' = "none"
            /\ loadpc' = "idle"
            /\ UNCHANGED <<calc, calcValid>>
    /\ UNCHANGED <<inputs, gdf_store, out, pending, locals, scratch, nextDir, offered>>

\* ----------------------------------------------------------------- outputs
Finish(o, v) ==
    /\ running = o /\ loadpc = "done"
    /\ out' = [out EXCEPT ![o] = v]
    /\ running' = "none"
    /\ loadpc' = "idle"

attribute_selector ==
    /\ LET numeric_columns == IF IsNone(calc.gdf) THEN {} ELSE NumericColumns(calc.gdf)
       IN /\ Finish("attribute_selector",
                    IF IsNone(calc.gdf)
                    THEN [kind |-> "p"]
                    ELSE [kind |-> "select", choices |-> numeric_columns])
          /\ offered' = offered \cup numeric_columns
    /\ UNCHANGED <<inputs, gdf_store, calcValid, calc, pending, locals, scratch, nextDir,
                   crashed>>

file_info ==
    /\ Finish("file_info",
              IF IsNone(calc.gdf)
              THEN [kind |-> "p"]
              ELSE [kind |-> "count", n |-> Len(calc.gdf.rows)])
    /\ UNCHANGED <<inputs, gdf_store, calcValid, calc, pending, locals, scratch, nextDir,
                   crashed, offered>>

debug_info ==
    /\ Finish("debug_info", [kind |-> "msg", msg |-> calc.msg])
    /\ UNCHANGED <<inputs, gdf_store, calcValid, calc, pending, locals, scratch, nextDir,
                   crashed, offered>>

geometry_info ==
    /\ Finish("geometry_info",
              IF IsNone(calc.gdf)
              THEN [kind |-> "p"]
              ELSE [kind |-> "geometry",
                    bounds |-> Fids(calc.gdf),
                    crs |-> calc.gdf.crs,
                    types |-> GeomTypeCounts(calc.gdf)])
    /\ UNCHANGED <<inputs, gdf_store, calcValid, calc, pending, locals, scratch, nextDir,
                   crashed, offered>>

\* map_output reads gdf_store and input.legend_attribute, never load_shapefile
map_output ==
    /\ running = "none" /\ loadpc = "idle" /\ ~crashed
    /\ "map_output" \in pending
    /\ pending' = pending \ {"map_output"}
    /\ IF IsNone(gdf_store)
       THEN out' = [out EXCEPT !["map_output"] = [kind |-> "p"]] /\ UNCHANGED crashed
       ELSE LET e == RenderError(gdf_store, legend_attribute)
            IN IF e = ""
               THEN /\ out' = [out EXCEPT !["map_output"] =
                                  [kind |-> "map", features |-> Fids(gdf_store),
                                   table |-> gdf_store.id, attr |-> legend_attribute]]
                    /\ UNCHANGED crashed
               ELSE IF RenderCatches(e)
                    THEN /\ out' = [out EXCEPT !["map_output"] =
                                       [kind |-> "error", desc |-> e, trace |-> 82]]
                         /\ UNCHANGED crashed
                    ELSE crashed' = TRUE /\ UNCHANGED out
    /\ UNCHANGED <<inputs, gdf_store, calcValid, calc, running, loadpc, locals, scratch,
                   nextDir, offered>>

Next ==
    \/ \E fs \in Uploads : Upload(fs)
    \/ \E a \in {"pop", "area", "name", "code"} : SelectAttribute(a)
    \/ \E o \in LoadReaders : CallLoad(o)
    \/ load_entry
    \/ load_mkdtemp
    \/ load_assemble
    \/ load_find
    \/ load_read
    \/ load_repair
    \/ load_check
    \/ load_except
    \/ attribute_selector
    \/ map_output
    \/ file_info
    \/ debug_info
    \/ geometry_info

Spec == Init /\ [][Next]_vars

\* ----------------------------------------------------------------- typing
TypeOK ==
    /\ calcValid \in BOOLEAN
    /\ crashed \in BOOLEAN
    /\ running \in Outputs \cup {"none"}
    /\ pending \subseteq Outputs
    /\ nextDir \in 0..MaxLoads

\* ------------------------------------------------------------------ claims
Readouts == {"file_info", "debug_info", "geometry_info"}

\* an output shows the value computed from the memoised load result
UpToDate(o) == calcValid /\ o \notin pending /\ running # o

\* C1: after a prior successful load, once a re-upload has been processed, the
\* map shows rows of the table of the most recent upload only, and the
\* "upload a shapefile" prompt when that upload produced no table
C1_ReuploadReplacesMap ==
    (Quiescent /\ ~IsNone(gdf_store)) =>
        IF IsNone(calc.gdf)
        THEN out["map_output"].kind = "p"
        ELSE out["map_output"].kind = "map" => out["map_output"].features = Fids(calc.gdf)

\* C2: after a load that leaves at least one row invalid, every consumer works
\* on the newly loaded table: count, diagnostics, selector and the table the
\* map renderer reads
C2_InvalidTableUsable ==
    (Quiescent /\ calc.msg.kind = "invalid") =>
        /\ out["file_info"] = [kind |-> "count", n |-> Len(calc.gdf.rows)]
        /\ out["geometry_info"].kind = "geometry"
        /\ out["attribute_selector"].kind = "select"
        /\ gdf_store = calc.gdf

\* C3: a load that parsed R rows keeps the R rows, the feature count reads R,
\* and with N >= 1 rows left invalid (the "nan" rows) the message states N and
\* holds one explanation per invalid row and none for a valid row; with N = 0
\* the success message is returned
C3_RowsKeptAndExplained ==
    (calcValid /\ ~IsNone(parsed)) =>
        LET R == Len(parsed.rows)
            bad == {i \in 1..R : parsed.rows[i].geom = "nan"}
        IN /\ ~IsNone(calc.gdf)
           /\ Len(calc.gdf.rows) = R
           /\ \A i \in 1..R : calc.gdf.rows[i].fid = parsed.rows[i].fid
           /\ UpToDate("file_info") => out["file_info"] = [kind |-> "count", n |-> R]
           /\ IF bad # {}
              THEN /\ calc.msg.kind = "invalid"
                   /\ calc.msg.count = Cardinality(bad)
                   /\ DOMAIN calc.msg.info = bad
                   /\ \A i \in bad : calc.msg.info[i] # "Valid Geometry"
              ELSE calc.msg.kind = "success"

C3_Witness ==
    /\ Quiescent
    /\ calc.msg.kind = "invalid" /\ calc.msg.count = 2
    /\ out["file_info"] = [kind |-> "count", n |-> 3]

\* the upload leaves no name ending in .shp in the scratch directory, stated on
\* the upload itself
NoShpUploaded ==
    /\ files # <<>>
    /\ IF Len(files) = 1 /\ files[1].name = a_zip
       THEN /\ files[1].body.kind = "zip"
            /\ DOMAIN files[1].body.members \cap {a_shp, b_shp} = {}
       ELSE /\ \A i \in DOMAIN files : files[i].body.kind # "unreadable"
            /\ \A i \in DOMAIN files : files[i].name \notin {a_shp, b_shp}

\* C4: with no .shp in the scratch directory the load returns no table and the
\* "no .shp file found" message, and no exception was raised on the way
C4_NoShpReported ==
    (calcValid /\ NoShpUploaded) =>
        /\ calc = [gdf |-> None, msg |-> [kind |-> "noshp"]]
        /\ exc = ""
        /\ ~crashed

C4_Witness ==
    /\ Quiescent
    /\ Len(files) = 1 /\ files[1].name = a_zip /\ files[1].body.kind = "zip"
    /\ calc.msg.kind = "noshp"
    /\ out["debug_info"].msg.kind = "noshp"

\* C5: a failure inside the load never leaves it; the load returns no table
\* and an error message with the description and the trace; corrupt archives,
\* unreadable files and a .shp without its .shx end this way; and the session
\* still takes an upload afterwards
C5_LoadFailureCaught ==
    /\ ~crashed
    /\ (calcValid /\ exc # "") =>
          /\ IsNone(calc.gdf)
          /\ calc.msg.kind = "error"
          /\ calc.msg.desc = exc
          /\ calc.msg.trace \in {38, 42, 47}
    /\ (calcValid /\ Len(files) = 1 /\ files[1].name = a_zip
            /\ files[1].body.kind = "garbage") => calc.msg.kind = "error"
    /\ (calcValid /\ Len(files) > 1
            /\ \E i \in DOMAIN files : files[i].body.kind = "unreadable")
          => calc.msg.kind = "error"
    /\ (calcValid /\ Len(files) = 1 /\ files[1].name = a_shp) => calc.msg.kind = "error"
    /\ (Quiescent /\ nextDir < MaxLoads) => ENABLED (\E fs \in Uploads : Upload(fs))

C5_Witness ==
    /\ Quiescent
    /\ nextDir = 2
    /\ calc.msg.kind = "error" /\ calc.msg.desc = "DriverError"
    /\ out["file_info"].kind = "p"

\* C6: a scratch directory exists only between its creation and the end of the
\* with block: none before the load, none once the load has returned or is in
\* its except clause; the one that exists is the newest, it starts empty, every
\* load of a non-empty upload has created one and a load without files none
C6_ScratchScoped ==
    /\ loadpc \in {"idle", "entry", "mkdtemp", "except", "done"} => scratch = <<>>
    /\ loadpc \in {"assemble", "find", "read", "repair", "check"} =>
          /\ DOMAIN scratch = {tmpdirname}
          /\ tmpdirname = nextDir
          /\ tmpdirname > 0
    /\ loadpc = "assemble" => scratch[tmpdirname] = <<>>
    /\ (calcValid /\ files # <<>>) => (tmpdirname = nextDir /\ nextDir > 0)
    /\ files = <<>> => (nextDir = 0 /\ tmpdirname = 0)

C6_Witness ==
    /\ loadpc = "done"
    /\ nextDir = 2
    /\ exc # ""
    /\ scratch = <<>>

\* C7 as stated: whenever the renderer is about to draw a stored table with a
\* selected attribute, that attribute is an integer or float column of the table
C7_RendererAttributeNumeric ==
    ("map_output" \in pending /\ running = "none" /\ ~IsNone(gdf_store)
        /\ legend_attribute # "") =>
        /\ legend_attribute \in DOMAIN gdf_store.dtypes
        /\ gdf_store.dtypes[legend_attribute] \in {"int64", "float64"}

\* C7 amended: the selector shown for the current load result offers exactly
\* int64 or float64 columns of that table and is the plain prompt without a
\* table; the attribute the renderer gets is unset or one the selector offered
\* at some time in the session
C7_SelectorNumericOnly ==
    /\ UpToDate("attribute_selector") =>
          IF IsNone(calc.gdf)
          THEN out["attribute_selector"] = [kind |-> "p"]
          ELSE /\ out["attribute_selector"].kind = "select"
               /\ \A c \in out["attribute_selector"].choices :
                     /\ c \in DOMAIN calc.gdf.dtypes
                     /\ calc.gdf.dtypes[c] \in {"int64", "float64"}
    /\ \A c \in offered : \E t \in {T1, T2, T3} :
          c \in DOMAIN t.dtypes /\ t.dtypes[c] \in {"int64", "float64"}
    /\ legend_attribute = "" \/ legend_attribute \in offered

C7_Witness ==
    /\ Quiescent
    /\ ~IsNone(gdf_store)
    /\ out["attribute_selector"].kind = "select"
    /\ legend_attribute # ""
    /\ legend_attribute \notin DOMAIN gdf_store.dtypes

\* C8: a render that fails (attribute unset, stale or not a number column) ends
\* as an error message with a trace and never leaves map_output; and a step
\* that changes the map output changes no input, no stored table, no load
\* result and no other output
C8_RenderFailureCaught ==
    [][ /\ ~crashed'
        /\ ("map_output" \notin pending' /\ ~IsNone(gdf_store')
              /\ (\/ legend_attribute' \notin DOMAIN gdf_store'.dtypes
                  \/ gdf_store'.dtypes[legend_attribute'] = "object"))
            => /\ out'["map_output"].kind = "error"
               /\ out'["map_output"].desc \in {"SilentException", "KeyError", "TypeError"}
               /\ out'["map_output"].trace > 0
        /\ out'["map_output"] # out["map_output"]
            => /\ UNCHANGED <<files, legend_attribute, gdf_store, calc, calcValid>>
               /\ \A o \in LoadReaders : out'[o] = out[o]
      ]_vars

C8_Witness ==
    /\ Quiescent
    /\ out["map_output"].kind = "error" /\ out["map_output"].desc = "KeyError"
    /\ ~IsNone(calc.gdf) /\ gdf_store = calc.gdf
    /\ out["file_info"].kind = "count"

\* C9 as stated: no step taken while a readout is being computed changes the
\* stored table, the load result or the selected attribute
C9_ReadoutsNeverMutate ==
    [][ (running \in Readouts) =>
            (gdf_store' = gdf_store /\ calc' = calc /\ legend_attribute' = legend_attribute)
      ]_vars

\* C9 amended: a readout computed while the load result is current changes
\* nothing and runs no step of the load; the load result and the stored table
\* change only inside a run of the load for an upload not yet loaded
C9_ReadoutsReadOnlyWhenCurrent ==
    [][ /\ (running \in Readouts /\ calcValid) =>
              /\ UNCHANGED <<files, legend_attribute, gdf_store, calc, calcValid,
                             scratch, nextDir>>
              /\ loadpc = "done" /\ loadpc' = "idle"
        /\ (calc' # calc \/ gdf_store' # gdf_store) =>
              /\ ~calcValid
              /\ running \in LoadReaders
              /\ loadpc \in {"entry", "find", "check", "except"}
      ]_vars

C9_Witness ==
    /\ running = "geometry_info"
    /\ loadpc = "done"
    /\ ~IsNone(calc.gdf)
    /\ out["file_info"].kind = "count"
    /\ out["debug_info"].msg = calc.msg

\* C10: the scratch directory holds the members of the archive when the upload
\* is one file named *.zip, and otherwise exactly the uploaded names with
\* uploaded bodies, archives unexpanded; the .shp parsed is one of its names
C10_AssemblyBranch ==
    loadpc \in {"find", "read", "repair", "check"} =>
        LET listing == scratch[tmpdirname]
            archive == Len(files) = 1 /\ files[1].name = a_zip
        IN /\ IF archive
              THEN listing = files[1].body.members
              ELSE /\ DOMAIN listing = {files[i].name : i \in DOMAIN files}
                   /\ \A n \in DOMAIN listing :
                         \E i \in DOMAIN files : files[i].name = n /\ files[i].body = listing[n]
           /\ loadpc # "find" => shp_file \in DOMAIN listing \cap {a_shp, b_shp}

C10_Witness ==
    /\ loadpc = "read"
    /\ Len(files) = 2
    /\ \E i \in DOMAIN files : files[i].name = a_zip /\ files[i].body.kind = "zip"
    /\ a_zip \in DOMAIN scratch[tmpdirname]
    /\ shp_file = a_shp
====
